---- MODULE Spec2Model ----
(***************************************************************************)
(* Model of server/src/app.js: the Apollo context function and getMe, the  *)
(* SSR route handler and its Html document, the boot sequence and the seed *)
(* routine.                                                                *)
(***************************************************************************)
EXTENDS Integers, Sequences, FiniteSets, TLC

(***************************************************************************)
(* Bounds of the model.                                                    *)
(***************************************************************************)
MaxOps == 2
MaxTime == 1
MaxLoads == 2
MaxPages == 2
MaxFetches == 2
MaxLen == 3
MaxSeedCalls == 2
MaxDate == 1
MaxResets == 1
MaxServed == 2

OpIds == 1..MaxOps
Times == 0..MaxTime

(***************************************************************************)
(* Values.                                                                 *)
(***************************************************************************)
Undefined == [tag |-> "undefined"]

\* process.env.SECRET, and a key that is not it
SECRET == "secret"
OtherKey == "forged"

\* the data-store handle (import models from './models')
models == "models"

\* the two identities the seed routine creates
Identities == {"rwieruch", "ddavids"}

(***************************************************************************)
(* The x-token header.  A header is absent, the empty string, a string     *)
(* that is no JWT, or a JWT signed with some key, carrying an identity and *)
(* possibly an expiry time.                                                *)
(***************************************************************************)
NoHeader == [form |-> "absent", key |-> "", hasExp |-> FALSE, exp |-> 0, id |-> ""]
EmptyHeader == [form |-> "empty", key |-> "", hasExp |-> FALSE, exp |-> 0, id |-> ""]
Malformed == [form |-> "malformed", key |-> "", hasExp |-> FALSE, exp |-> 0, id |-> ""]

Jwts ==
    {[form |-> "jwt", key |-> k, hasExp |-> TRUE, exp |-> e, id |-> i] :
        k \in {SECRET, OtherKey}, e \in 1..MaxTime, i \in Identities}
    \cup
    {[form |-> "jwt", key |-> k, hasExp |-> FALSE, exp |-> 0, id |-> i] :
        k \in {SECRET, OtherKey}, i \in Identities}

Headers == {NoHeader, EmptyHeader, Malformed} \cup Jwts

\* JavaScript truthiness of req.headers['x-token']
Truthy(h) == h.form \notin {"absent", "empty"}

Return(v) == [threw |-> FALSE, value |-> v]
Throw(e) == [threw |-> TRUE, error |-> e]

\* the payload jwt.verify decodes
Payload(t) == [tag |-> "payload", id |-> t.id, hasExp |-> t.hasExp, exp |-> t.exp]

(***************************************************************************)
(* jwt.verify(token, secret) at time clock: malformed, then signature,     *)
(* then expiry; each failure throws an error of its own.                   *)
(***************************************************************************)
jwtVerify(token, secret, clock) ==
    IF token.form # "jwt"
    THEN Throw([name |-> "JsonWebTokenError", message |-> "jwt malformed"])
    ELSE IF token.key # secret
    THEN Throw([name |-> "JsonWebTokenError", message |-> "invalid signature"])
    ELSE IF token.hasExp /\ clock >= token.exp
    THEN Throw([name |-> "TokenExpiredError", message |-> "jwt expired"])
    ELSE Return(Payload(token))

AuthenticationError(message) ==
    [name |-> "AuthenticationError", code |-> "UNAUTHENTICATED", message |-> message]

SessionExpired == "Your session expired. Sign in again."

\* mutant: the verification error is rethrown as it is
getMeRethrows(req, clock) ==
    LET token == req.headers.xtoken
    IN  IF Truthy(token) THEN jwtVerify(token, SECRET, clock) ELSE Return(Undefined)

\* mutant: a verification failure is swallowed and the caller is anonymous
getMeSwallows(req, clock) ==
    LET token == req.headers.xtoken
        r == IF Truthy(token) THEN jwtVerify(token, SECRET, clock) ELSE Return(Undefined)
    IN  IF r.threw THEN Return(Undefined) ELSE r

getMe(req, clock) ==
    LET token == req.headers.xtoken
    IN  IF Truthy(token)
        THEN LET r == jwtVerify(token, SECRET, clock)
             IN  IF r.threw THEN Throw(AuthenticationError(SessionExpired)) ELSE r
        ELSE Return(Undefined)

(***************************************************************************)
(* State.                                                                  *)
(***************************************************************************)
VARIABLES
    \* two getMe calls side by side
    gmReq, gmOut,
    \* GraphQL operations: position, transport, x-token, context, error
    pc, kind, header, meOut, ctx, opErr, resolved, now,
    \* the DataLoader instances the contexts hold
    nextLoader, ldCache, ldQueue, ldCalls, ldMade, loads,
    \* SSR page requests: position, Cookie header, API client, upstream
    \* fetches, documents sent
    pgPc, pgCookie, pgClient, pgFetched, pgFailed, fetchLog, sent,
    \* the Html component: the extracted cache state and the script text
    htmlState, htmlScript,
    \* the boot sequence, the store's user table and the seed routine
    isTest, isProduction, bootPc, users, users0, nextId,
    seedPc, seedDate, seedEpoch, resets, served

gmVars == <<gmReq, gmOut>>
opVars == <<pc, kind, header, meOut, ctx, opErr, resolved, now, nextLoader>>
ldVars == <<ldCache, ldQueue, ldCalls, ldMade, loads>>
pgVars == <<pgPc, pgCookie, pgClient, pgFetched, pgFailed, fetchLog, sent>>
htmlVars == <<htmlState, htmlScript>>
envVars == <<isTest, isProduction, users0>>
bootVars == <<bootPc, users, nextId, seedPc, seedDate, seedEpoch, resets, served>>
otherThanGm == <<opVars, ldVars, pgVars, htmlVars, envVars, bootVars>>
otherThanApi == <<gmVars, pgVars, htmlVars, envVars, bootVars>>
otherThanSsr == <<gmVars, opVars, ldVars, htmlVars, envVars, bootVars>>
otherThanBoot == <<gmVars, opVars, ldVars, pgVars, htmlVars, envVars>>
vars == <<gmVars, opVars, ldVars, pgVars, htmlVars, envVars, bootVars>>

(***************************************************************************)
(* getMe on its own: two requests, each with a header and the time at      *)
(* which jwt.verify reads the clock.                                       *)
(***************************************************************************)
Pair == {"a", "b"}
NotCalled == [tag |-> "pending"]
Req(h) == [headers |-> [xtoken |-> h]]

GetMeCall(x) ==
    /\ gmOut[x] = NotCalled
    /\ gmOut' = [gmOut EXCEPT ![x] = getMe(Req(gmReq[x].header), gmReq[x].clock)]
    /\ UNCHANGED <<gmReq, otherThanGm>>

(***************************************************************************)
(* The context function of the ApolloServer.                               *)
(***************************************************************************)
Kinds == {"request", "connection"}
NoCtx == [tag |-> "none"]
NoErr == [tag |-> "none"]
LoaderIds == 1..MaxOps

\* what Apollo passes to context: { req } for a query or mutation over HTTP,
\* { connection } for a subscription over the websocket
Args(k, h) ==
    IF k = "connection"
    THEN [req |-> Undefined, connection |-> [context |-> [xtoken |-> h]]]
    ELSE [req |-> Req(h), connection |-> Undefined]

\* mutant: one DataLoader made at module load and put into every context
ModuleLevelLoader == CHOOSE l \in LoaderIds : \A m \in LoaderIds : l <= m

\* new DataLoader(...): a new object
NewDataLoader == nextLoader

\* mutant: the connection branch is missing and getMe is called for a
\* subscription as well
contextCallNoConnectionBranch(args, clock) ==
    IF args.req # Undefined
    THEN getMe(args.req, clock)
    ELSE getMe([headers |-> args.connection.context], clock)

\* context up to `await getMe(req)`: for a request getMe is called, and
\* jwt.verify reads the clock, before context is suspended; for a
\* subscription getMe is not called
contextCall(args, clock) ==
    IF args.connection # Undefined
    THEN NotCalled
    ELSE IF args.req # Undefined
    THEN getMe(args.req, clock)
    ELSE NotCalled

\* mutant: an anonymous request is rejected
contextRequiresToken(args, me) ==
    IF args.connection # Undefined
    THEN Return([models |-> models])
    ELSE IF args.req # Undefined
    THEN IF me.threw THEN me
         ELSE IF me.value = Undefined
         THEN Throw(AuthenticationError(SessionExpired))
         ELSE Return([models |-> models, me |-> me.value, secret |-> SECRET,
                      loaders |-> [user |-> NewDataLoader]])
    ELSE Return(Undefined)

\* context from where it resumes with the outcome me of getMe: an error of
\* getMe is thrown on, else the context is made, with a new DataLoader
contextResume(args, me) ==
    IF args.connection # Undefined
    THEN Return([models |-> models])
    ELSE IF args.req # Undefined
    THEN IF me.threw THEN me
         ELSE Return([models |-> models, me |-> me.value, secret |-> SECRET,
                      loaders |-> [user |-> NewDataLoader]])
    ELSE Return(Undefined)

HasLoaders(c) == "loaders" \in DOMAIN c

\* The o-th operation arrives and Apollo calls context({ req, connection })
\* for it: context runs to its suspension, the token verified at the time
\* of the call.
Receive(o, k, h) ==
    /\ pc[o] = "idle"
    /\ IF o = 1 THEN TRUE ELSE pc[o - 1] # "idle"
    /\ kind' = [kind EXCEPT ![o] = k]
    /\ header' = [header EXCEPT ![o] = h]
    /\ meOut' = [meOut EXCEPT ![o] = contextCall(Args(k, h), now)]
    /\ pc' = [pc EXCEPT ![o] = "suspended"]
    /\ UNCHANGED <<ctx, opErr, resolved, now, nextLoader, otherThanApi, ldVars>>

\* The context of the operation resumes and settles, other operations and
\* the clock having gone on meanwhile.  A context that throws aborts the
\* operation.
ContextSettled(o) ==
    /\ pc[o] = "suspended"
    /\ LET r == contextResume(Args(kind[o], header[o]), meOut[o])
       IN  IF r.threw
           THEN /\ pc' = [pc EXCEPT ![o] = "aborted"]
                /\ opErr' = [opErr EXCEPT ![o] = r.error]
                /\ UNCHANGED <<ctx, nextLoader>>
           ELSE /\ pc' = [pc EXCEPT ![o] = "executing"]
                /\ ctx' = [ctx EXCEPT ![o] = r.value]
                /\ nextLoader' = IF HasLoaders(r.value) /\ r.value.loaders.user = nextLoader
                                 THEN nextLoader + 1 ELSE nextLoader
                /\ UNCHANGED opErr
    /\ UNCHANGED <<kind, header, meOut, resolved, now, otherThanApi, ldVars>>

\* Apollo runs a resolver of the operation with the context it was given
ResolverStep(o) ==
    /\ pc[o] = "executing"
    /\ resolved' = [resolved EXCEPT ![o] = TRUE]
    /\ UNCHANGED <<pc, kind, header, meOut, ctx, opErr, now, nextLoader, otherThanApi, ldVars>>

\* the response is sent and the operation's context is dropped
Respond(o) ==
    /\ pc[o] = "executing"
    /\ HasLoaders(ctx[o]) => ldQueue[ctx[o].loaders.user] = <<>>
    /\ pc' = [pc EXCEPT ![o] = "done"]
    /\ kind' = [kind EXCEPT ![o] = "request"]
    /\ header' = [header EXCEPT ![o] = NoHeader]
    /\ meOut' = [meOut EXCEPT ![o] = NotCalled]
    /\ ctx' = [ctx EXCEPT ![o] = NoCtx]
    /\ resolved' = [resolved EXCEPT ![o] = FALSE]
    /\ loads' = [loads EXCEPT ![o] = <<>>]
    /\ UNCHANGED <<opErr, now, nextLoader, otherThanApi, ldCache, ldQueue, ldCalls, ldMade>>

(***************************************************************************)
(* DataLoader: load(key) returns the promise cached for the key, or makes  *)
(* one, caches it and queues the key; the queued keys go to the batch      *)
(* function in one call.                                                   *)
(***************************************************************************)
UserKeys == Identities

Cached(l, k) == k \in DOMAIN ldCache[l]

\* a resolver calls context.loaders.user.load(k)
Load(o, k) ==
    /\ pc[o] = "executing"
    /\ HasLoaders(ctx[o])
    /\ Len(loads[o]) < MaxLoads
    /\ LET l == ctx[o].loaders.user
           p == IF Cached(l, k) THEN ldCache[l][k]
                ELSE [loader |-> l, n |-> ldMade[l] + 1]
       IN  /\ loads' = [loads EXCEPT ![o] = Append(@, [key |-> k, promise |-> p])]
           /\ IF Cached(l, k)
              THEN UNCHANGED <<ldCache, ldQueue, ldMade>>
              ELSE /\ ldCache' = [ldCache EXCEPT ![l] =
                                    [x \in DOMAIN @ \cup {k} |-> IF x = k THEN p ELSE @[x]]]
                   /\ ldQueue' = [ldQueue EXCEPT ![l] = Append(@, k)]
                   /\ ldMade' = [ldMade EXCEPT ![l] = @ + 1]
    /\ resolved' = [resolved EXCEPT ![o] = TRUE]
    /\ UNCHANGED <<pc, kind, header, meOut, ctx, opErr, now, nextLoader, ldCalls, otherThanApi>>

\* the loader's batch function runs: loaders.user.batchUsers(keys, models)
Dispatch(l) ==
    /\ ldQueue[l] # <<>>
    /\ ldCalls' = [ldCalls EXCEPT ![l] = Append(@, ldQueue[l])]
    /\ ldQueue' = [ldQueue EXCEPT ![l] = <<>>]
    /\ UNCHANGED <<ldCache, ldMade, loads, opVars, otherThanApi>>

Tick ==
    /\ now < MaxTime
    /\ now' = now + 1
    /\ UNCHANGED <<pc, kind, header, meOut, ctx, opErr, resolved, nextLoader, otherThanApi, ldVars>>

(***************************************************************************)
(* The SSR route: ssrApp.get('/*', ...).                                   *)
(***************************************************************************)
PageIds == 1..MaxPages

\* the value of a request header; req.header('Cookie') is undefined when
\* the request has none
Absent == [defined |-> FALSE, value |-> ""]
Value(s) == [defined |-> TRUE, value |-> s]
Cookies == {Absent, Value("sid=A"), Value("sid=B")}

GraphqlUri == "http://localhost:8000/graphql"

\* new HttpLink(options): the link sends options.headers, if any, with
\* every request
HttpLink(options) ==
    [uri |-> options.uri,
     headers |-> IF "headers" \in DOMAIN options THEN options.headers ELSE <<>>]

\* new ApolloClient(options) of apollo-client: reads link, cache and
\* ssrMode; it knows no headers option
ApolloClient(options) ==
    [link |-> options.link, cache |-> options.cache, ssrMode |-> options.ssrMode]

EmptyCache == <<>>

SsrClient(req) ==
    ApolloClient([ssrMode |-> TRUE,
                  link |-> HttpLink([fetch |-> "node-fetch", uri |-> GraphqlUri]),
                  headers |-> [cookie |-> req.cookie],
                  cache |-> EmptyCache])

NoClient == [tag |-> "none"]

\* the Cookie header of a fetch the client's link issues
FetchCookie(client) ==
    IF "cookie" \in DOMAIN client.link.headers THEN client.link.headers.cookie ELSE Absent

\* the handler up to getDataFromTree(Application): the client is made and
\* the dry render starts
SsrGet(p, c) ==
    /\ pgPc[p] = "idle"
    /\ IF p = 1 THEN TRUE ELSE pgPc[p - 1] # "idle"
    /\ pgCookie' = [pgCookie EXCEPT ![p] = c]
    /\ pgClient' = [pgClient EXCEPT ![p] = SsrClient([cookie |-> c])]
    /\ pgPc' = [pgPc EXCEPT ![p] = "fetching"]
    /\ UNCHANGED <<pgFetched, pgFailed, fetchLog, sent, otherThanSsr>>

\* a query of the tree is fetched from the GraphQL endpoint through the
\* client's link, and succeeds or fails
UpstreamFetch(p, ok) ==
    /\ pgPc[p] = "fetching"
    /\ pgFetched[p] < MaxFetches
    /\ pgFetched' = [pgFetched EXCEPT ![p] = @ + 1]
    /\ pgFailed' = [pgFailed EXCEPT ![p] = @ \/ ~ok]
    /\ fetchLog' = fetchLog \cup
            {[page |-> p, uri |-> pgClient[p].link.uri, cookie |-> FetchCookie(pgClient[p])]}
    /\ UNCHANGED <<pgPc, pgCookie, pgClient, sent, otherThanSsr>>

\* mutant: the document is sent however the join ended
JoinSettledSend(p) ==
    /\ pgPc[p] = "fetching"
    /\ pgPc' = [pgPc EXCEPT ![p] = "responded"]
    /\ sent' = [sent EXCEPT ![p] = @ + 1]
    /\ UNCHANGED <<pgCookie, pgClient, pgFetched, pgFailed, fetchLog, otherThanSsr>>

\* getDataFromTree resolved: the then-callback renders and sends the
\* document
JoinResolved(p) ==
    /\ pgPc[p] = "fetching"
    /\ ~pgFailed[p]
    /\ pgPc' = [pgPc EXCEPT ![p] = "responded"]
    /\ sent' = [sent EXCEPT ![p] = @ + 1]
    /\ UNCHANGED <<pgCookie, pgClient, pgFetched, pgFailed, fetchLog, otherThanSsr>>

\* getDataFromTree rejected: there is no rejection handler, the callback
\* never runs and nothing is written to the response
JoinRejected(p) ==
    /\ pgPc[p] = "fetching"
    /\ pgFailed[p]
    /\ pgPc' = [pgPc EXCEPT ![p] = "rejected"]
    /\ UNCHANGED <<pgCookie, pgClient, pgFetched, pgFailed, fetchLog, sent, otherThanSsr>>

(***************************************************************************)
(* The Html component: the inline script that carries the cache state.     *)
(* Text is a sequence of characters.                                       *)
(***************************************************************************)
Chars == {"<", ">", "a", "\"", "\\"}
Lt == "<"
Escaped == <<"\\", "u", "0", "0", "3", "c">>
ScriptPrefix == <<"w", "i", "n", "d", "o", "w", ".", "_", "_", "A", "P", "O", "L", "L", "O", "_", "S", "T", "A", "T", "E", "_", "_", "=">>

\* JSON.stringify of a string: quoted, with quote and backslash escaped
RECURSIVE JsonChars(_)
JsonChars(s) ==
    IF s = <<>> THEN <<>>
    ELSE (IF Head(s) \in {"\"", "\\"} THEN <<"\\", Head(s)>> ELSE <<Head(s)>>)
         \o JsonChars(Tail(s))

JsonString(s) == <<"\"">> \o JsonChars(s) \o <<"\"">>

\* JSON.stringify of an object with one property
JSONstringify(obj) ==
    <<"{">> \o JsonString(obj.key) \o <<":">> \o JsonString(obj.value) \o <<"}">>

\* mutant: replace('<', ...) replaces the first match only
RECURSIVE ReplaceFirstLt(_)
ReplaceFirstLt(s) ==
    IF s = <<>> THEN <<>>
    ELSE IF Head(s) = Lt THEN Escaped \o Tail(s)
    ELSE <<Head(s)>> \o ReplaceFirstLt(Tail(s))

\* .replace(/</g, '\\u003c')
RECURSIVE ReplaceLt(_)
ReplaceLt(s) ==
    IF s = <<>> THEN <<>>
    ELSE (IF Head(s) = Lt THEN Escaped ELSE <<Head(s)>>) \o ReplaceLt(Tail(s))

\* `window.__APOLLO_STATE__=${JSON.stringify(state).replace(/</g, '\\u003c')};`
ScriptText(state) == ScriptPrefix \o ReplaceLt(JSONstringify(state)) \o <<";">>

NotRendered == <<>>

HtmlRender ==
    /\ htmlScript = NotRendered
    /\ htmlScript' = ScriptText(htmlState)
    /\ UNCHANGED <<htmlState, gmVars, opVars, ldVars, pgVars, envVars, bootVars>>

Strings(n) == UNION {[1..m -> Chars] : m \in 0..n}
HtmlInputs == [key : {<<"a">>, <<"<">>}, value : Strings(MaxLen)]
NoHtmlInput == {[key |-> <<"a">>, value |-> <<>>]}

(***************************************************************************)
(* The store's user table, the boot sequence and the seed routine.         *)
(***************************************************************************)
SeedIds == 1..MaxSeedCalls
Dates == 0..MaxDate

\* models.User.create(values, { include: [models.Message] }): a row with
\* the next id is added to the table
UserCreate(table, id, values) == Append(table, [id |-> id, values |-> values])

\* the object of the first create; date is the Date before it is evaluated
SeedUser1(date) ==
    [username |-> "rwieruch", email |-> "hello@robin.com", password |-> "rwieruch",
     role |-> "ADMIN",
     messages |-> <<[text |-> "Published the Road to learn React",
                     createdAt |-> date + 1]>>]

\* the object of the second create
SeedUser2(date) ==
    [username |-> "ddavids", email |-> "hello@david.com", password |-> "ddavids",
     messages |-> <<[text |-> "Happy to release a GraphQL in React tutorial",
                     createdAt |-> date + 1],
                    [text |-> "A complete React with Apollo and GraphQL Tutorial",
                     createdAt |-> date + 2]>>]

Rows(table, u) == {r \in DOMAIN table : table[r].values.username = u}

\* createUsersWithMessages(date) up to its first await: the first object is
\* evaluated, which moves the date on, and User.create is called
SeedStarted(i, date) ==
    /\ seedPc' = [seedPc EXCEPT ![i] = "creating1"]
    /\ seedDate' = [seedDate EXCEPT ![i] = date + 1]
    /\ seedEpoch' = [seedEpoch EXCEPT ![i] = resets]

\* mutant: a create is skipped when the username is in the table
SeedCreatedIfAbsent(i) ==
    /\ seedPc[i] \in {"creating1", "creating2"}
    /\ LET values == IF seedPc[i] = "creating1" THEN SeedUser1(seedDate[i] - 1)
                     ELSE SeedUser2(seedDate[i] - 2)
       IN  IF Rows(users, values.username) # {}
           THEN UNCHANGED <<users, nextId>>
           ELSE /\ users' = UserCreate(users, nextId, values)
                /\ nextId' = nextId + 1
    /\ IF seedPc[i] = "creating1"
       THEN /\ seedPc' = [seedPc EXCEPT ![i] = "creating2"]
            /\ seedDate' = [seedDate EXCEPT ![i] = @ + 2]
       ELSE /\ seedPc' = [seedPc EXCEPT ![i] = "done"]
            /\ UNCHANGED seedDate
    /\ UNCHANGED <<bootPc, seedEpoch, resets, served, otherThanBoot>>

\* the create an invocation awaits resolves: the row is in the table; after
\* the first the second object is evaluated and created, after the second
\* the routine is finished
SeedCreated(i) ==
    /\ seedPc[i] \in {"creating1", "creating2"}
    /\ users' = UserCreate(users, nextId,
                           IF seedPc[i] = "creating1" THEN SeedUser1(seedDate[i] - 1)
                           ELSE SeedUser2(seedDate[i] - 2))
    /\ nextId' = nextId + 1
    /\ IF seedPc[i] = "creating1"
       THEN /\ seedPc' = [seedPc EXCEPT ![i] = "creating2"]
            /\ seedDate' = [seedDate EXCEPT ![i] = @ + 2]
       ELSE /\ seedPc' = [seedPc EXCEPT ![i] = "done"]
            /\ UNCHANGED seedDate
    /\ UNCHANGED <<bootPc, seedEpoch, resets, served, otherThanBoot>>

\* sequelize.sync({ force: isTest || isProduction }) resolves: with force
\* the tables are dropped and made anew
BootSync ==
    /\ bootPc = "loading"
    /\ bootPc' = "synced"
    /\ IF isTest \/ isProduction
       THEN /\ users' = <<>>
            /\ nextId' = 1
            /\ resets' = resets + 1
       ELSE UNCHANGED <<users, nextId, resets>>
    /\ UNCHANGED <<seedPc, seedDate, seedEpoch, served, otherThanBoot>>

\* the callback of sync: the seed routine is called, not awaited, and both
\* servers listen
BootThen(date) ==
    /\ bootPc = "synced"
    /\ bootPc' = "listening"
    /\ IF isTest \/ isProduction
       THEN SeedStarted(1, date)
       ELSE UNCHANGED <<seedPc, seedDate, seedEpoch>>
    /\ UNCHANGED <<users, nextId, resets, served, otherThanBoot>>

UserNames(table) == {table[r].values.username : r \in DOMAIN table}

\* a listening server serves a request against the store as it is
Serve ==
    /\ bootPc = "listening"
    /\ Cardinality(served) < MaxServed
    /\ served' = served \cup {[seed |-> seedPc[1], users |-> UserNames(users)]}
    /\ UNCHANGED <<bootPc, users, nextId, seedPc, seedDate, seedEpoch, resets, otherThanBoot>>

\* the seed routine is called on the store
SeedCall(i, date) ==
    /\ seedPc[i] = "idle"
    /\ IF i = 1 THEN TRUE ELSE seedPc[i - 1] # "idle"
    /\ SeedStarted(i, date)
    /\ UNCHANGED <<bootPc, users, nextId, resets, served, otherThanBoot>>

\* the schema is reset: sequelize.sync({ force: true })
ForceSync ==
    /\ resets < MaxResets
    /\ users' = <<>>
    /\ nextId' = 1
    /\ resets' = resets + 1
    /\ UNCHANGED <<bootPc, seedPc, seedDate, seedEpoch, served, otherThanBoot>>

\* the table a former run of the process left behind
FormerSeed == UserCreate(UserCreate(<<>>, 1, SeedUser1(0)), 2, SeedUser2(1))
FormerStores == {SubSeq(FormerSeed, 1, n) : n \in 0..Len(FormerSeed)}
AnyFlags == [test : BOOLEAN, production : BOOLEAN]
NoFlags == {[test |-> FALSE, production |-> FALSE]}
EmptyStore == {<<>>}

\* The state after construction.  GmInputs are the requests the two getMe
\* calls are given, HtmlStates the cache states Html is given, Flags the
\* settings of TEST_DATABASE and DATABASE_URL, Stores the user tables the
\* database may hold when the process starts.
Init(GmInputs, HtmlStates, Flags, Stores) ==
    /\ gmReq \in [Pair -> GmInputs]
    /\ gmOut = [x \in Pair |-> NotCalled]
    /\ pc = [o \in OpIds |-> "idle"]
    /\ kind = [o \in OpIds |-> "request"]
    /\ header = [o \in OpIds |-> NoHeader]
    /\ meOut = [o \in OpIds |-> NotCalled]
    /\ ctx = [o \in OpIds |-> NoCtx]
    /\ opErr = [o \in OpIds |-> NoErr]
    /\ resolved = [o \in OpIds |-> FALSE]
    /\ now = 0
    /\ nextLoader = 1
    /\ ldCache = [l \in LoaderIds |-> <<>>]
    /\ ldQueue = [l \in LoaderIds |-> <<>>]
    /\ ldCalls = [l \in LoaderIds |-> <<>>]
    /\ ldMade = [l \in LoaderIds |-> 0]
    /\ loads = [o \in OpIds |-> <<>>]
    /\ pgPc = [p \in PageIds |-> "idle"]
    /\ pgCookie = [p \in PageIds |-> Absent]
    /\ pgClient = [p \in PageIds |-> NoClient]
    /\ pgFetched = [p \in PageIds |-> 0]
    /\ pgFailed = [p \in PageIds |-> FALSE]
    /\ fetchLog = {}
    /\ sent = [p \in PageIds |-> 0]
    /\ htmlState \in HtmlStates
    /\ htmlScript = NotRendered
    /\ \E f \in Flags : isTest = f.test /\ isProduction = f.production
    /\ users \in Stores
    /\ users0 = users
    /\ nextId = Len(users) + 1
    /\ bootPc = "loading"
    /\ seedPc = [i \in SeedIds |-> "idle"]
    /\ seedDate = [i \in SeedIds |-> 0]
    /\ seedEpoch = [i \in SeedIds |-> 0]
    /\ resets = 0
    /\ served = {}

NoGmInput == {[header |-> NoHeader, clock |-> 0]}

SpecGetMe ==
    /\ Init([header : Headers, clock : Times], NoHtmlInput, NoFlags, EmptyStore)
    /\ [][\E x \in Pair : GetMeCall(x)]_vars

\* the x-tokens of the operations: every form, key and expiry, of one
\* identity
ApiHeaders == {h \in Headers : h.form = "jwt" => h.id = "rwieruch"}

NextApi ==
    \/ \E o \in OpIds, k \in Kinds, h \in ApiHeaders : Receive(o, k, h)
    \/ \E o \in OpIds : ContextSettled(o)
    \/ \E o \in OpIds : ResolverStep(o)
    \/ \E o \in OpIds : Respond(o)
    \/ Tick

SpecApi ==
    /\ Init(NoGmInput, NoHtmlInput, NoFlags, EmptyStore)
    /\ [][NextApi]_vars

LoaderHeaders == {NoHeader}

NextLoader ==
    \/ \E o \in OpIds, k \in Kinds, h \in LoaderHeaders : Receive(o, k, h)
    \/ \E o \in OpIds : ContextSettled(o)
    \/ \E o \in OpIds, k \in UserKeys : Load(o, k)
    \/ \E l \in LoaderIds : Dispatch(l)
    \/ \E o \in OpIds : Respond(o)

SpecLoader ==
    /\ Init(NoGmInput, NoHtmlInput, NoFlags, EmptyStore)
    /\ [][NextLoader]_vars

NextSsr ==
    \/ \E p \in PageIds, c \in Cookies : SsrGet(p, c)
    \/ \E p \in PageIds, ok \in BOOLEAN : UpstreamFetch(p, ok)
    \/ \E p \in PageIds : JoinResolved(p)
    \/ \E p \in PageIds : JoinRejected(p)

SpecSsr ==
    /\ Init(NoGmInput, NoHtmlInput, NoFlags, EmptyStore)
    /\ [][NextSsr]_vars

SpecHtml ==
    /\ Init(NoGmInput, HtmlInputs, NoFlags, EmptyStore)
    /\ [][HtmlRender]_vars

NextBoot ==
    \/ BootSync
    \/ \E d \in Dates : BootThen(d)
    \/ SeedCreated(1)
    \/ Serve

SpecBoot ==
    /\ Init(NoGmInput, NoHtmlInput, AnyFlags, FormerStores)
    /\ [][NextBoot]_vars

NextSeed ==
    \/ \E i \in SeedIds, d \in Dates : SeedCall(i, d)
    \/ \E i \in SeedIds : SeedCreated(i)
    \/ ForceSync

SpecSeed ==
    /\ Init(NoGmInput, NoHtmlInput, NoFlags, EmptyStore)
    /\ [][NextSeed]_vars

(***************************************************************************)
(* Properties.                                                             *)
(***************************************************************************)
SigValid(h) == h.form = "jwt" /\ h.key = SECRET
Unexpired(h, clock) == ~h.hasExp \/ clock < h.exp
Tampered(h) == Truthy(h) /\ ~SigValid(h)
AuthError == AuthenticationError(SessionExpired)
Called(x) == gmOut[x] # NotCalled /\ Truthy(gmReq[x].header)

\* C1: for a request with a non-empty x-token, getMe returns the decoded
\* identity iff the token is signature-valid under SECRET and unexpired at
\* the time of the call; every other token fails with the one
\* AuthenticationError 'Your session expired. Sign in again.', so two failed
\* calls are equal whatever made them fail.
C1_GetMeUniformFailure ==
    /\ \A x \in Pair :
        Called(x) =>
            LET h == gmReq[x].header
                c == gmReq[x].clock
            IN  /\ ~gmOut[x].threw <=> (SigValid(h) /\ Unexpired(h, c))
                /\ ~gmOut[x].threw => gmOut[x].value = Payload(h)
                /\ gmOut[x].threw => gmOut[x].error = AuthError
    /\ \A x, y \in Pair :
        (Called(x) /\ Called(y) /\ gmOut[x].threw /\ gmOut[y].threw)
            => gmOut[x] = gmOut[y]

\* a malformed token and an expired, rightly signed token have both failed
C1_Witness ==
    /\ Called("a") /\ Called("b")
    /\ gmReq["a"].header = Malformed
    /\ SigValid(gmReq["b"].header) /\ ~Unexpired(gmReq["b"].header, gmReq["b"].clock)
    /\ gmOut["a"].threw /\ gmOut["b"].threw

Live(o) == pc[o] \in {"executing", "aborted"}

\* C2: a request-response operation without x-token header gets a context:
\* construction does not fail, me is absent, and the context holds the data
\* store handle, the secret and a batching cache.
C2_AnonymousContext ==
    \A o \in OpIds :
        (Live(o) /\ kind[o] = "request" /\ header[o] = NoHeader) =>
            /\ pc[o] = "executing"
            /\ opErr[o] = NoErr
            /\ DOMAIN ctx[o] = {"models", "me", "secret", "loaders"}
            /\ ctx[o].me = Undefined
            /\ ctx[o].models = models
            /\ ctx[o].secret = SECRET
            /\ ctx[o].loaders.user \in LoaderIds

C2_Witness ==
    \E o \in OpIds :
        /\ pc[o] = "executing" /\ kind[o] = "request" /\ header[o] = NoHeader
        /\ resolved[o]

\* C3: a request-response operation whose x-token fails verification is
\* aborted with the authentication error and none of its resolvers runs; a
\* resolver has run only for an operation whose context was constructed,
\* which for a request is after getMe has verified and returned.
C3_NoResolverWithoutContext ==
    \A o \in OpIds :
        /\ (Live(o) /\ kind[o] = "request" /\ Tampered(header[o])) =>
                /\ pc[o] = "aborted"
                /\ opErr[o] = AuthError
                /\ ctx[o] = NoCtx
                /\ ~resolved[o]
        /\ (pc[o] = "suspended" /\ kind[o] = "request" /\ Tampered(header[o])) =>
                (meOut[o] # NotCalled /\ meOut[o].threw)
        /\ pc[o] = "suspended" => (ctx[o] = NoCtx /\ ~resolved[o])
        /\ resolved[o] =>
                /\ pc[o] = "executing"
                /\ ctx[o] # NoCtx
                /\ opErr[o] = NoErr
                /\ kind[o] = "request" => (meOut[o] # NotCalled /\ ~meOut[o].threw)

C3_Witness ==
    \E o, q \in OpIds :
        /\ pc[o] = "aborted" /\ kind[o] = "request"
        /\ header[o].form = "jwt" /\ header[o].key = OtherKey
        /\ pc[q] = "executing" /\ resolved[q] /\ SigValid(header[q])

\* C4: a subscription gets a context holding the data store handle and
\* nothing else; its token is never verified and it never gets an
\* authentication error, whatever token the connection carries.
C4_SubscriptionContext ==
    \A o \in OpIds :
        /\ (pc[o] # "idle" /\ kind[o] = "connection") =>
                (meOut[o] = NotCalled /\ pc[o] # "aborted")
        /\ (Live(o) /\ kind[o] = "connection") =>
            /\ pc[o] = "executing"
            /\ opErr[o] = NoErr
            /\ DOMAIN ctx[o] = {"models"}
            /\ ctx[o].models = models

C4_Witness ==
    \E o \in OpIds :
        /\ pc[o] = "executing" /\ kind[o] = "connection"
        /\ Tampered(header[o])

Holds(o) == pc[o] = "executing" /\ HasLoaders(ctx[o])
CallsWith(l, k) ==
    {<<c, i>> \in (DOMAIN ldCalls[l]) \X (1..MaxLoads) :
        i \in DOMAIN ldCalls[l][c] /\ ldCalls[l][c][i] = k}

\* C8: within one context two lookups of a key return the same promise and
\* the key goes to the batch function at most once; the loader of a context
\* is its own: it is no other operation's, and all it caches are the keys
\* this operation has looked up.
C8_LoaderDedupAndFresh ==
    /\ \A l \in LoaderIds, k \in UserKeys : Cardinality(CallsWith(l, k)) <= 1
    /\ \A o \in OpIds :
        Holds(o) =>
            LET l == ctx[o].loaders.user
            IN  /\ \A i, j \in DOMAIN loads[o] :
                        loads[o][i].key = loads[o][j].key
                            => loads[o][i].promise = loads[o][j].promise
                /\ \A i \in DOMAIN loads[o] : loads[o][i].promise.loader = l
                /\ \A k \in DOMAIN ldCache[l] :
                        \E i \in DOMAIN loads[o] : loads[o][i].key = k
                /\ \A q \in OpIds \ {o} :
                        Holds(q) => ctx[q].loaders.user # l

\* an operation has looked one key up twice, the key went to the store
\* once, and another operation has looked the same key up
C8_Witness ==
    \E o, q \in OpIds :
        /\ o # q /\ Holds(o) /\ Holds(q)
        /\ Len(loads[o]) = 2 /\ loads[o][1].key = loads[o][2].key
        /\ ldCalls[ctx[o].loaders.user] = <<(<<loads[o][1].key>>)>>
        /\ Len(loads[q]) >= 1 /\ loads[q][1].key = loads[o][1].key

\* C5: every upstream fetch of the client made for a page request carries
\* that request's Cookie header, unmodified, and no other request's.
C5_CookieForwarded ==
    \A f \in fetchLog :
        /\ f.uri = GraphqlUri
        /\ f.cookie = pgCookie[f.page]

\* C6: the document of a page request is sent at most once, and only when
\* the join resolved; when the join rejects nothing is sent.
C6_SentOnceAfterJoin ==
    \A p \in PageIds :
        /\ sent[p] <= 1
        /\ sent[p] = 1 => (pgPc[p] = "responded" /\ ~pgFailed[p])
        /\ pgFailed[p] => sent[p] = 0
        /\ pgPc[p] = "rejected" => (pgFailed[p] /\ sent[p] = 0)
        /\ pgPc[p] = "responded" => sent[p] = 1

\* one request was answered after its fetches, another's join rejected
C6_Witness ==
    \E p, q \in PageIds :
        /\ pgPc[p] = "responded" /\ pgFetched[p] >= 1 /\ sent[p] = 1
        /\ pgPc[q] = "rejected" /\ sent[q] = 0

LtBefore(s, i) == Cardinality({m \in 1..(i - 1) : s[m] = Lt})
LtCount(s) == LtBefore(s, Len(s) + 1)

\* C7: the script text holds no '<'; it is the prefix, the serialized state
\* with each '<' replaced by \u003c and every other character kept in its
\* place, and the closing ';'.
C7_ScriptHasNoLt ==
    htmlScript # NotRendered =>
        LET j == JSONstringify(htmlState)
            n == Len(ScriptPrefix)
        IN  /\ \A i \in DOMAIN htmlScript : htmlScript[i] # Lt
            /\ Len(htmlScript) = n + Len(j) + 5 * LtCount(j) + 1
            /\ SubSeq(htmlScript, 1, n) = ScriptPrefix
            /\ htmlScript[Len(htmlScript)] = ";"
            /\ \A i \in DOMAIN j :
                    LET at == n + i + 5 * LtBefore(j, i)
                    IN  IF j[i] = Lt
                        THEN SubSeq(htmlScript, at, at + 5) = Escaped
                        ELSE htmlScript[at] = j[i]

\* a state with '<' in its key and twice in its value has been rendered
C7_Witness ==
    /\ htmlScript # NotRendered
    /\ htmlState.key = <<Lt>>
    /\ Len(htmlState.value) = 3
    /\ htmlState.value[1] = Lt /\ htmlState.value[2] = "\"" /\ htmlState.value[3] = Lt

Finished(i) == seedPc[i] = "done" /\ seedEpoch[i] = resets

\* C9: two invocations of the seed routine on one store, with no schema
\* reset since the first began, leave a row of each identity per
\* invocation: two rows for 'rwieruch' and two for 'ddavids' (exactly two
\* when the store was empty and nothing else wrote to it).
C9_SeedTwiceDuplicates ==
    \A i, j \in SeedIds :
        (i # j /\ Finished(i) /\ Finished(j)) =>
            /\ \A u \in Identities : Cardinality(Rows(users, u)) >= 2
            /\ (\A k \in SeedIds \ {i, j} : seedPc[k] = "idle")
                    => \A u \in Identities : Cardinality(Rows(users, u)) = 2

\* two invocations have finished after a reset, none since
C9_Witness ==
    /\ resets = 1
    /\ Finished(1) /\ Finished(2)
    /\ Cardinality(Rows(users, "rwieruch")) = 2
    /\ Cardinality(Rows(users, "ddavids")) = 2

Flagged == isTest \/ isProduction

\* C10: with TEST_DATABASE or DATABASE_URL set the servers listen only when
\* the schema was reset and the seed routine has finished, so every request
\* served finds both identities; with neither set the seed routine never
\* runs and the schema is not reset.
C10_SeedBeforeListen ==
    /\ (Flagged /\ bootPc = "listening") =>
            /\ resets = 1
            /\ seedPc[1] = "done"
            /\ Identities \subseteq UserNames(users)
    /\ \A s \in served : Flagged => (s.seed = "done" /\ Identities \subseteq s.users)
    /\ ~Flagged => (seedPc[1] = "idle" /\ resets = 0 /\ users = users0)

====
